---------------------------- MODULE Spec2Model ----------------------------
(***************************************************************************)
(* Model of src/app.py, the Streamlit "Serverless FinOps Dashboard".       *)
(*                                                                         *)
(* The script is re-executed top to bottom on every page load and on every *)
(* change of the file-upload widget.  One execution (a "pass") is modelled *)
(* as a sequence of steps, one per block of the script; the state is the   *)
(* widget's file, the script position, the DataFrames the script binds and *)
(* the list of elements rendered so far in the pass.                       *)
(*                                                                         *)
(* Numbers: a pandas float64 cell is modelled as an exact rational n/d     *)
(* (d > 0), with d = 0 for the non-finite values: 0/0 is NaN (the missing  *)
(* marker), 1/0 is +inf, -1/0 is -inf.  Rounding of binary floating point  *)
(* is not modelled.                                                        *)
(***************************************************************************)
EXTENDS Integers, Sequences, FiniteSets, TLC

(***************************************************************************)
(* Cells.  Every cell of a DataFrame is a record of one shape, so that any *)
(* two cells can be compared.                                              *)
(***************************************************************************)
Abs(i) == IF i < 0 THEN 0 - i ELSE i

Sgn(i) == IF i < 0 THEN 0 - 1 ELSE IF i > 0 THEN 1 ELSE 0

RECURSIVE GCD(_, _)
GCD(a, b) == IF b = 0 THEN a ELSE GCD(b, a % b)

\* The float n/d in lowest terms; d = 0 gives NaN, +inf or -inf by the sign of n.
Num(n, d) ==
    IF d = 0 THEN [k |-> "num", n |-> Sgn(n), d |-> 0, s |-> ""]
    ELSE LET g == GCD(Abs(n), Abs(d))
         IN  [k |-> "num", n |-> Sgn(d) * (n \div g), d |-> Abs(d) \div g, s |-> ""]

NaN == Num(0, 0)

\* A text cell (object dtype), as read_csv leaves a cell that is not a number.
Str(t) == [k |-> "str", n |-> 0, d |-> 0, s |-> t]

\* A boolean cell.
Bool(b) == [k |-> "bool", n |-> IF b THEN 1 ELSE 0, d |-> 1, s |-> ""]

IsNaN(x) == x.k = "num" /\ x.d = 0 /\ x.n = 0

IsFinite(x) == x.k = "num" /\ x.d > 0

\* float multiplication: NaN propagates, 0 * inf is NaN.
Mul(x, y) ==
    IF IsNaN(x) \/ IsNaN(y) THEN NaN
    ELSE IF x.d = 0 \/ y.d = 0 THEN Num(x.n * y.n, 0)
    ELSE LET g1 == GCD(Abs(x.n), y.d)
             g2 == GCD(Abs(y.n), x.d)
         IN  Num((x.n \div g1) * (y.n \div g2), (x.d \div g2) * (y.d \div g1))

\* float division as numpy does it on a Series: x / 0 is +-inf, 0 / 0 is NaN.
Div(x, y) ==
    IF IsNaN(x) \/ IsNaN(y) THEN NaN
    ELSE IF y.d = 0 THEN (IF x.d = 0 THEN NaN ELSE Num(0, 1))
    ELSE IF y.n = 0 THEN Num(x.n, 0)
    ELSE Mul(x, Num(Sgn(y.n) * y.d, Abs(y.n)))

\* float addition: NaN propagates, inf + -inf is NaN.
Add(x, y) ==
    IF IsNaN(x) \/ IsNaN(y) THEN NaN
    ELSE IF x.d = 0 /\ y.d = 0 THEN (IF x.n = y.n THEN x ELSE NaN)
    ELSE IF x.d = 0 THEN x
    ELSE IF y.d = 0 THEN y
    ELSE LET g == GCD(x.d, y.d)
         IN  Num(x.n * (y.d \div g) + y.n * (x.d \div g), (x.d \div g) * y.d)

Neg(x) == IF IsNaN(x) THEN NaN ELSE Num(0 - x.n, x.d)

Sub(x, y) == Add(x, Neg(y))

\* float comparisons: every comparison with NaN is False.
Lt(x, y) ==
    /\ ~IsNaN(x)
    /\ ~IsNaN(y)
    /\ IF x.d = 0 /\ y.d = 0 THEN x.n < y.n ELSE x.n * y.d < y.n * x.d

Gt(x, y) == Lt(y, x)

Le(x, y) ==
    /\ ~IsNaN(x)
    /\ ~IsNaN(y)
    /\ IF x.d = 0 /\ y.d = 0 THEN x.n <= y.n ELSE x.n * y.d <= y.n * x.d

(***************************************************************************)
(* Series: a column is a sequence of cells, aligned with the frame's index.*)
(***************************************************************************)
RECURSIVE SumFrom(_, _)
SumFrom(col, i) ==
    IF i > Len(col) THEN Num(0, 1)
    ELSE Add(IF IsNaN(col[i]) THEN Num(0, 1) ELSE col[i], SumFrom(col, i + 1))

\* Series.sum(): skipna, so a missing cell adds nothing; the empty sum is 0.
Sum(col) == SumFrom(col, 1)

RECURSIVE CumSumTo(_, _)
CumSumTo(col, i) ==
    IF i = 0 THEN Num(0, 1)
    ELSE Add(IF IsNaN(col[i]) THEN Num(0, 1) ELSE col[i], CumSumTo(col, i - 1))

\* Series.cumsum(): skipna, the running sum steps over a missing cell and the
\* result is missing at that position.
CumSum(col) ==
    [i \in 1..Len(col) |-> IF IsNaN(col[i]) THEN NaN ELSE CumSumTo(col, i)]

\* The positions of a column whose cell satisfies the mask, ascending.
RECURSIVE Where(_, _)
Where(mask, i) ==
    IF i > Len(mask) THEN <<>>
    ELSE (IF mask[i] THEN <<i>> ELSE <<>>) \o Where(mask, i + 1)

\* Series.median(): skipna; the middle value, or the mean of the two middle
\* values, of the non-missing cells; NaN when there are none.
Median(col) ==
    LET pos  == {i \in 1..Len(col) : ~IsNaN(col[i])}
        cnt  == Cardinality(pos)
        \* rank the positions by (value, position) to keep duplicates apart
        rank(i) == Cardinality({j \in pos : Lt(col[j], col[i])
                                            \/ (col[j] = col[i] /\ j <= i)})
        at(r) == col[CHOOSE i \in pos : rank(i) = r]
    IN  IF cnt = 0 THEN NaN
        ELSE IF cnt % 2 = 1 THEN at((cnt + 1) \div 2)
        ELSE Div(Add(at(cnt \div 2), at(cnt \div 2 + 1)), Num(2, 1))

(***************************************************************************)
(* DataFrames: an index (the row labels, which are the row numbers of the  *)
(* uploaded file, counted from 1 here) and named columns aligned with it.  *)
(***************************************************************************)
EmptyFrame == [index |-> <<>>, col |-> <<>>]

NRows(f) == Len(f.index)

HasColumn(f, c) == c \in DOMAIN f.col

\* The rows of f at the given positions, in that order (f.iloc[positions]).
Take(f, positions) ==
    [index |-> [i \in 1..Len(positions) |-> f.index[positions[i]]],
     col   |-> [c \in DOMAIN f.col |->
                    [i \in 1..Len(positions) |-> f.col[c][positions[i]]]]]

\* f[mask]: the rows whose mask is True, in f's order; a new frame.
Filter(f, mask) == Take(f, Where(mask, 1))

\* f[c] = series: the column is added, or replaced when f already has one
\* of that name.
WithColumn(f, c, series) ==
    [index |-> f.index,
     col   |-> [x \in DOMAIN f.col \cup {c} |-> IF x = c THEN series ELSE f.col[x]]]

\* The orders nargsort can return for a descending sort with the default
\* kind="quicksort" and na_position="last": the non-missing cells descending,
\* the missing ones after them in their original order.  quicksort is not a
\* stable sort, so cells that compare equal may come out in either order.
DescendingOrders(col) ==
    LET n == Len(col)
    IN  {p \in [1..n -> 1..n] :
            /\ \A i, j \in 1..n : i # j => p[i] # p[j]
            /\ \A i \in 1..(n - 1) :
                  \/ Gt(col[p[i]], col[p[i + 1]])
                  \/ col[p[i]] = col[p[i + 1]] /\ ~IsNaN(col[p[i]])
                  \/ IsNaN(col[p[i + 1]]) /\ ~IsNaN(col[p[i]])
                  \/ IsNaN(col[p[i]]) /\ IsNaN(col[p[i + 1]]) /\ p[i] < p[i + 1]}

(***************************************************************************)
(* The uploaded file.  columns are the header labels as written in the     *)
(* file (a label may carry surrounding blanks), data the cells under each  *)
(* label, as read_csv types them: a number, NaN for an empty cell, or text.*)
(***************************************************************************)
NoFile == [has |-> FALSE, columns |-> <<>>, nrows |-> 0, data |-> <<>>]

Label(name, pad) == [name |-> name, pad |-> pad]

\* str.strip() of a header label.
Strip(label) == label.name

NumericColumns ==
    <<"CostUSD", "InvocationsPerMonth", "AvgDurationMs", "MemoryMB",
      "ColdStartRate", "ProvisionedConcurrency", "DataTransferGB">>

RequiredColumns == {NumericColumns[i] : i \in 1..Len(NumericColumns)} \cup {"FunctionName"}

\* Text that parses as a number, with its value.
NumericText == [t \in {"20"} |-> 20]

\* pd.to_numeric(errors='coerce') of one cell: a number stays, numeric text
\* is parsed, any other text becomes NaN.
ToNumeric(c) ==
    IF c.k = "num" THEN c
    ELSE IF c.s \in DOMAIN NumericText THEN Num(NumericText[c.s], 1)
    ELSE NaN

\* pd.read_csv(uploaded) followed by df.columns = df.columns.str.strip().
ReadCsv(file) ==
    [index |-> [i \in 1..file.nrows |-> i],
     col   |-> [c \in {Strip(file.columns[j]) : j \in 1..Len(file.columns)} |->
                    file.data[CHOOSE j \in 1..Len(file.columns) :
                                  Strip(file.columns[j]) = c]]]

\* Lines 15-21: the seven numeric columns coerced, in the script's order.
RECURSIVE CoerceFrom(_, _)
CoerceFrom(f, i) ==
    IF i > Len(NumericColumns) THEN f
    ELSE CoerceFrom(WithColumn(f, NumericColumns[i],
                               [r \in 1..NRows(f) |->
                                   ToNumeric(f.col[NumericColumns[i]][r])]), i + 1)

Coerced(f) == CoerceFrom(f, 1)

(***************************************************************************)
(* The stages, as the script computes them.                                *)
(***************************************************************************)
\* Mutant of TotalCost: .mean() in place of .sum().
TotalCostMean(f) ==
    LET cost == f.col["CostUSD"]
        cnt  == Cardinality({i \in 1..Len(cost) : ~IsNaN(cost[i])})
    IN  Div(Sum(cost), Num(cnt, 1))

\* Line 26: total_cost = df["CostUSD"].sum().
TotalCost(f) == Sum(f.col["CostUSD"])

\* Line 34: df.sort_values("CostUSD", ascending=False), one frame per order
\* the sort may return.
SortedByCost(f) == {Take(f, p) : p \in DescendingOrders(f.col["CostUSD"])}

\* Mutant of WithCumulative: the percent taken of each row's own cost, not
\* of the running sum.
WithPercentOfRow(sorted, total) ==
    LET withCost == WithColumn(sorted, "CumulativeCost", CumSum(sorted.col["CostUSD"]))
    IN  WithColumn(withCost, "CumulativePercent",
                   [i \in 1..NRows(sorted) |->
                       Mul(Div(sorted.col["CostUSD"][i], total), Num(100, 1))])

\* Lines 35-36: CumulativeCost and CumulativePercent added to the sorted copy.
WithCumulative(sorted, total) ==
    LET cum == CumSum(sorted.col["CostUSD"])
        withCost == WithColumn(sorted, "CumulativeCost", cum)
    IN  WithColumn(withCost, "CumulativePercent",
                   [i \in 1..NRows(sorted) |-> Mul(Div(cum[i], total), Num(100, 1))])

\* Mutant of Top80: the threshold compared with the percent reached before
\* the row, so that the row that crosses 80% is kept.
Top80Exclusive(sorted) ==
    LET total == Sum(sorted.col["CostUSD"])
    IN  Filter(sorted,
               [i \in 1..NRows(sorted) |->
                   Le(Mul(Div(Sub(sorted.col["CumulativeCost"][i], sorted.col["CostUSD"][i]),
                              total), Num(100, 1)),
                      Num(80, 1))])

\* Line 38: the rows of the sorted frame with CumulativePercent <= 80.
Top80(sorted) ==
    Filter(sorted, [i \in 1..NRows(sorted) |->
                       Le(sorted.col["CumulativePercent"][i], Num(80, 1))])

\* Line 57: DurationSec = AvgDurationMs / 1000, written into df.
WithDurationSec(f) ==
    WithColumn(f, "DurationSec",
               [i \in 1..NRows(f) |-> Div(f.col["AvgDurationMs"][i], Num(1000, 1))])

\* Lines 59-60: the mask (MemoryMB > 1500) & (DurationSec < 1).
MemoryMask(f) ==
    [i \in 1..NRows(f) |->
        Gt(f.col["MemoryMB"][i], Num(1500, 1)) /\ Lt(f.col["DurationSec"][i], Num(1, 1))]

\* Line 61: .sort_values("MemoryMB", ascending=False) of the masked rows.
MemoryIssues(f) ==
    LET hit == Filter(f, MemoryMask(f))
    IN  {Take(hit, p) : p \in DescendingOrders(hit.col["MemoryMB"])}

\* Mutant of PredictedNewCost: a 30% reduction.
PredictedNewCost70(cost) == Mul(cost, Num(70, 100))

\* Line 66: PredictedNewCost = CostUSD * 0.75.
PredictedNewCost(cost) == Mul(cost, Num(75, 100))

\* Lines 66-67: the projection columns added to memory_issues.
WithProjection(m) ==
    LET predicted == [i \in 1..NRows(m) |-> PredictedNewCost(m.col["CostUSD"][i])]
        withPred  == WithColumn(m, "PredictedNewCost", predicted)
    IN  WithColumn(withPred, "Savings",
                   [i \in 1..NRows(m) |-> Sub(m.col["CostUSD"][i], predicted[i])])

\* Lines 80-81: the rows with ProvisionedConcurrency > 0, flagged when
\* ColdStartRate < 2.
PcCandidates(f) ==
    LET hit == Filter(f, [i \in 1..NRows(f) |->
                             Gt(f.col["ProvisionedConcurrency"][i], Num(0, 1))])
    IN  WithColumn(hit, "PC_WasteFlag",
                   [i \in 1..NRows(hit) |->
                       Bool(Lt(hit.col["ColdStartRate"][i], Num(2, 1)))])

\* Lines 98-99: PercentInvocations = InvocationsPerMonth / total_inv * 100,
\* written into df.
WithPercentInvocations(f) ==
    LET total_inv == Sum(f.col["InvocationsPerMonth"])
    IN  WithColumn(f, "PercentInvocations",
                   [i \in 1..NRows(f) |->
                       Mul(Div(f.col["InvocationsPerMonth"][i], total_inv), Num(100, 1))])

\* Mutant of LowValueMedian: the median taken after the share filter, over
\* the rows with PercentInvocations < 1 only.
MedianOfLowShare(f) ==
    Median(Filter(f, [i \in 1..NRows(f) |->
                         Lt(f.col["PercentInvocations"][i], Num(1, 1))]).col["CostUSD"])

\* The median the low-value filter compares with: df["CostUSD"].median().
LowValueMedian(f) == Median(f.col["CostUSD"])

\* Line 101: (PercentInvocations < 1) & (CostUSD > CostUSD.median()).
LowValue(f) ==
    Filter(f, [i \in 1..NRows(f) |->
                  /\ Lt(f.col["PercentInvocations"][i], Num(1, 1))
                  /\ Gt(f.col["CostUSD"][i], LowValueMedian(f))])

\* Lines 116-119: PredictedCost = Invocations * DurationSec * MemoryMB * 2e-9
\* + DataTransferGB * 0.09, written into df.
WithPredictedCost(f) ==
    WithColumn(f, "PredictedCost",
        [i \in 1..NRows(f) |->
            Add(Mul(Mul(Mul(f.col["InvocationsPerMonth"][i], f.col["DurationSec"][i]),
                        f.col["MemoryMB"][i]),
                    Num(2, 1000000000)),
                Mul(f.col["DataTransferGB"][i], Num(9, 100)))])

\* Mutant of ContainerMask: DurationSec >= 3.
ContainerMaskFrom3(f) ==
    [i \in 1..NRows(f) |->
        /\ Le(Num(3, 1), f.col["DurationSec"][i])
        /\ Gt(f.col["MemoryMB"][i], Num(2000, 1))
        /\ Lt(f.col["InvocationsPerMonth"][i], Num(5000, 1))]

\* Lines 147-149: (DurationSec > 3) & (MemoryMB > 2000) & (Invocations < 5000).
ContainerMask(f) ==
    [i \in 1..NRows(f) |->
        /\ Gt(f.col["DurationSec"][i], Num(3, 1))
        /\ Gt(f.col["MemoryMB"][i], Num(2000, 1))
        /\ Lt(f.col["InvocationsPerMonth"][i], Num(5000, 1))]

Containers(f) == Filter(f, ContainerMask(f))

(***************************************************************************)
(* State.                                                                  *)
(***************************************************************************)
VARIABLES
    uploaded,       \* the file held by st.file_uploader, NoFile when none
    pc,             \* the script position of the running pass
    rendered,       \* the elements shown so far in this pass, in order
    df,             \* line 12
    total_cost,     \* line 26
    df_sorted,      \* line 34
    top_80,         \* line 38
    memory_issues,  \* line 59
    pc_candidates,  \* line 80
    low_value,      \* line 101
    containers      \* line 146

vars == <<uploaded, pc, rendered, df, total_cost, df_sorted, top_80,
          memory_issues, pc_candidates, low_value, containers>>

frames == <<df, total_cost, df_sorted, top_80, memory_issues, pc_candidates,
            low_value, containers>>

Show(tags) == rendered' = rendered \o tags

\* The page as a new pass finds it: nothing bound, nothing rendered.
Fresh ==
    /\ pc = "begin"
    /\ rendered = <<>>
    /\ df = EmptyFrame
    /\ total_cost = NaN
    /\ df_sorted = EmptyFrame
    /\ top_80 = EmptyFrame
    /\ memory_issues = EmptyFrame
    /\ pc_candidates = EmptyFrame
    /\ low_value = EmptyFrame
    /\ containers = EmptyFrame

\* A re-run of the script: the page is cleared and the script starts over.
Rerun ==
    /\ pc' = "begin"
    /\ rendered' = <<>>
    /\ df' = EmptyFrame
    /\ total_cost' = NaN
    /\ df_sorted' = EmptyFrame
    /\ top_80' = EmptyFrame
    /\ memory_issues' = EmptyFrame
    /\ pc_candidates' = EmptyFrame
    /\ low_value' = EmptyFrame
    /\ containers' = EmptyFrame

\* The first page load: no file has been uploaded.
Init == uploaded = NoFile /\ Fresh

\* Lines 5-11: the title, the uploader, and the test of its value.
Begin ==
    /\ pc = "begin"
    /\ Show(<<"title", "uploader">>)
    /\ pc' = IF uploaded.has THEN "read" ELSE "else"
    /\ UNCHANGED <<uploaded, frames>>

\* Lines 12-13.
Read ==
    /\ pc = "read"
    /\ df' = ReadCsv(uploaded)
    /\ pc' = "coerce"
    /\ UNCHANGED <<uploaded, rendered, total_cost, df_sorted, top_80,
                   memory_issues, pc_candidates, low_value, containers>>

\* Lines 15-21: df[c] raises KeyError for the first numeric column the file
\* lacks; Streamlit shows the exception and the pass ends there.
Coerce ==
    /\ pc = "coerce"
    /\ IF \A i \in 1..Len(NumericColumns) : HasColumn(df, NumericColumns[i])
       THEN df' = Coerced(df) /\ pc' = "total" /\ UNCHANGED rendered
       ELSE Show(<<"exception">>) /\ pc' = "error" /\ UNCHANGED df
    /\ UNCHANGED <<uploaded, total_cost, df_sorted, top_80, memory_issues,
                   pc_candidates, low_value, containers>>

\* Lines 23-27: the sample and the total cost.
Total ==
    /\ pc = "total"
    /\ total_cost' = TotalCost(df)
    /\ Show(<<"sample_heading", "sample", "total_cost">>)
    /\ pc' = "rank"
    /\ UNCHANGED <<uploaded, df, df_sorted, top_80, memory_issues,
                   pc_candidates, low_value, containers>>

\* Lines 32-51: exercise 1.  top_80[["FunctionName", ...]] raises KeyError
\* when the file has no FunctionName column.
Rank ==
    /\ pc = "rank"
    /\ \E sorted \in SortedByCost(df) :
          /\ df_sorted' = WithCumulative(sorted, total_cost)
          /\ top_80' = Top80(df_sorted')
    /\ IF HasColumn(df, "FunctionName")
       THEN Show(<<"header_1", "top_80_heading", "top_80", "fig1">>) /\ pc' = "rightsize"
       ELSE Show(<<"header_1", "top_80_heading", "exception">>) /\ pc' = "error"
    /\ UNCHANGED <<uploaded, df, total_cost, memory_issues, pc_candidates,
                   low_value, containers>>

\* Lines 56-75: exercise 2.
RightSize ==
    /\ pc = "rightsize"
    /\ df' = WithDurationSec(df)
    /\ \E m \in MemoryIssues(df') : memory_issues' = WithProjection(m)
    /\ Show(<<"header_2", "memory_issues_heading", "memory_issues",
              "projection_heading", "projection", "memory_text">>)
    /\ pc' = "concurrency"
    /\ UNCHANGED <<uploaded, total_cost, df_sorted, top_80, pc_candidates,
                   low_value, containers>>

\* Lines 79-93: exercise 3.
Concurrency ==
    /\ pc = "concurrency"
    /\ pc_candidates' = PcCandidates(df)
    /\ Show(<<"header_3", "pc_candidates_heading", "pc_candidates", "pc_text">>)
    /\ pc' = "lowvalue"
    /\ UNCHANGED <<uploaded, df, total_cost, df_sorted, top_80, memory_issues,
                   low_value, containers>>

\* Lines 97-107: exercise 4.
Detect ==
    /\ pc = "lowvalue"
    /\ df' = WithPercentInvocations(df)
    /\ low_value' = LowValue(df')
    /\ Show(<<"header_4", "low_value_heading", "low_value", "low_value_text">>)
    /\ pc' = "forecast"
    /\ UNCHANGED <<uploaded, total_cost, df_sorted, top_80, memory_issues,
                   pc_candidates, containers>>

\* Lines 111-141: exercise 5.
Forecast ==
    /\ pc = "forecast"
    /\ df' = WithPredictedCost(df)
    /\ Show(<<"header_5", "equation", "forecast_heading", "forecast", "fig2",
              "forecast_text">>)
    /\ pc' = "containers"
    /\ UNCHANGED <<uploaded, total_cost, df_sorted, top_80, memory_issues,
                   pc_candidates, low_value, containers>>

\* Lines 145-153: exercise 6.
Containerize ==
    /\ pc = "containers"
    /\ containers' = Containers(df)
    /\ Show(<<"header_6", "containers_heading", "containers">>)
    /\ pc' = "closing"
    /\ UNCHANGED <<uploaded, df, total_cost, df_sorted, top_80, memory_issues,
                   pc_candidates, low_value>>

\* Lines 155-156: the else branch of the upload test.
NoUpload ==
    /\ pc = "else"
    /\ Show(<<"info">>)
    /\ pc' = "closing"
    /\ UNCHANGED <<uploaded, frames>>

\* Lines 158-162: the closing text, at the top level of the script, after
\* the if/else.
Closing ==
    /\ pc = "closing"
    /\ Show(<<"closing_text">>)
    /\ pc' = "done"
    /\ UNCHANGED <<uploaded, frames>>

(***************************************************************************)
(* The files the model uploads.  A row gives a cell for every column name; *)
(* a file is a header and up to a bounded number of rows.                  *)
(***************************************************************************)
MaxRankRows == 3

MaxStageRows == 2

MaxIngestRows == 1

Header ==
    <<"FunctionName", "CostUSD", "InvocationsPerMonth", "AvgDurationMs", "MemoryMB",
      "ColdStartRate", "ProvisionedConcurrency", "DataTransferGB">>

Nums(values) == {Num(v, 1) : v \in values}

\* A row of an ordinary function: cheap, short, small, busy, no provisioned
\* concurrency.  The families below vary some of its cells.
RowsWith(cost, inv, ms, mem, cold, conc) ==
    [FunctionName : {Str("fn")}, CostUSD : cost, InvocationsPerMonth : inv,
     AvgDurationMs : ms, MemoryMB : mem, ColdStartRate : cold,
     ProvisionedConcurrency : conc, DataTransferGB : Nums({1}), Extra : {Str("")}]

\* Costs around the 80% threshold, zero and unparsable ones.
RankRows ==
    RowsWith(Nums({0, 20, 80, 100}) \cup {Str("n/a")}, Nums({6000}), Nums({500}),
             Nums({128}), Nums({5}), Nums({0}))

\* Memory and duration on both sides of 1500 MB and of 1 s.
MemoryRows ==
    RowsWith(Nums({20, 100}) \cup {Str("n/a")}, Nums({6000}), Nums({500, 1000, 1500}),
             Nums({1500, 2000}), Nums({5}), Nums({0}))

\* Duration, memory and invocations on both sides of 3 s, 2000 MB and 5000.
ContainerRows ==
    RowsWith(Nums({20}), Nums({4999, 5000}), Nums({3000, 3500}) \cup {Str("n/a")},
             Nums({2000, 2048}), Nums({5}), Nums({0}))

\* Invocation shares below, at and above 1%, costs around the median.
LowValueRows ==
    RowsWith(Nums({20, 100}) \cup {Str("n/a")}, Nums({0, 1, 99}) \cup {Str("n/a")},
             Nums({500}), Nums({128}), Nums({5}), Nums({0}))

\* Provisioned concurrency and cold-start rate around 0 and 2.
ConcurrencyRows ==
    RowsWith(Nums({20, 100}) \cup {Str("n/a")}, Nums({6000}), Nums({500}), Nums({128}),
             Nums({1, 2}), Nums({0, 1}) \cup {Str("n/a")})

\* Rows that several stages select at once.
MixedRows ==
    RowsWith(Nums({20, 100}) \cup {Str("n/a")}, Nums({1, 6000}), Nums({500, 3500}),
             Nums({128, 2048}), Nums({1}), Nums({1}))

\* The file with the given header labels and rows; a column that is not one
\* of the eight takes the row's Extra cell.
MakeFile(labels, rows) ==
    [has     |-> TRUE,
     columns |-> labels,
     nrows   |-> Len(rows),
     data    |-> [j \in 1..Len(labels) |->
                     [i \in 1..Len(rows) |->
                         IF labels[j].name \in DOMAIN rows[i]
                         THEN rows[i][labels[j].name]
                         ELSE rows[i].Extra]]]

PlainLabels(names) == [j \in 1..Len(names) |-> Label(names[j], FALSE)]

\* names without its j-th entry.
Without(names, j) ==
    [i \in 1..(Len(names) - 1) |-> IF i < j THEN names[i] ELSE names[i + 1]]

\* Rows for the files whose header varies: text where a number is expected,
\* numeric text, an empty cell; a container-like row; an extra cell.
IngestRows ==
    [FunctionName : {Str("fn")}, CostUSD : {Num(20, 1), Str("20"), Str("n/a"), NaN},
     InvocationsPerMonth : Nums({1}), AvgDurationMs : Nums({500, 3500}),
     MemoryMB : Nums({2048}), ColdStartRate : Nums({1}),
     ProvisionedConcurrency : Nums({1}), DataTransferGB : Nums({1}),
     Extra : {Num(7, 1), Str("x")}]

\* The names an extra column of the file may carry.
ExtraNames ==
    {"Region", "DurationSec", "PercentInvocations", "PredictedCost",
     "CumulativePercent", "Savings"}

\* Headers: the full one, with blanks around its labels, with one column
\* missing, with one extra column.
IngestHeaders ==
    {PlainLabels(Header)}
    \cup {[j \in 1..Len(Header) |-> Label(Header[j], TRUE)]}
    \cup {PlainLabels(Without(Header, j)) : j \in 1..Len(Header)}
    \cup {PlainLabels(Header \o <<e>>) : e \in ExtraNames}

\* The families of files: the rows to draw from, the largest number of rows,
\* the headers.
Family(rows, max, headers) == [rows |-> rows, max |-> max, headers |-> headers]

Families ==
    <<Family(RankRows, MaxRankRows, {PlainLabels(Header)}),
      Family(MemoryRows, MaxStageRows, {PlainLabels(Header)}),
      Family(ContainerRows, MaxStageRows, {PlainLabels(Header)}),
      Family(LowValueRows, MaxStageRows, {PlainLabels(Header)}),
      Family(ConcurrencyRows, MaxStageRows, {PlainLabels(Header)}),
      Family(MixedRows, MaxStageRows, {PlainLabels(Header)}),
      Family(IngestRows, MaxIngestRows, IngestHeaders)>>

\* The user puts a file into the empty uploader once a pass has ended;
\* Streamlit re-runs the script from the top.  (Replacing the file the
\* uploader holds starts the same pass as Remove followed by Upload does.)
Upload ==
    /\ pc \in {"done", "error"}
    /\ ~uploaded.has
    /\ \E k \in 1..Len(Families) :
          \E n \in 0..Families[k].max :
             \E rows \in [1..n -> Families[k].rows] :
                \E h \in Families[k].headers :
                   uploaded' = MakeFile(h, rows)
    /\ Rerun

\* The user removes the file from the uploader; the script re-runs.
Remove ==
    /\ pc \in {"done", "error"}
    /\ uploaded.has
    /\ uploaded' = NoFile
    /\ Rerun

Next ==
    \/ Begin
    \/ Read
    \/ Coerce
    \/ Total
    \/ Rank
    \/ RightSize
    \/ Concurrency
    \/ Detect
    \/ Forecast
    \/ Containerize
    \/ NoUpload
    \/ Closing
    \/ Upload
    \/ Remove

Spec == Init /\ [][Next]_vars

(***************************************************************************)
(* Properties.                                                             *)
(***************************************************************************)
\* The element has been rendered in the current pass.
Has(tag) == \E i \in 1..Len(rendered) : rendered[i] = tag

\* The row labels of a frame.
Labels(f) == {f.index[i] : i \in 1..NRows(f)}

\* The rows 1..k of f.
Prefix(f, k) == Take(f, [i \in 1..k |-> i])

\* The percent of total_cost that rows 1..i of the sorted frame account for,
\* row i included.
PercentThrough(i) ==
    Mul(Div(Sum(SubSeq(df_sorted.col["CostUSD"], 1, i)), total_cost), Num(100, 1))

\* df_sorted holds the rows of df, CostUSD descending, missing costs last.
SortedDescending ==
    /\ NRows(df_sorted) = NRows(df)
    /\ Labels(df_sorted) = Labels(df)
    /\ \A i \in 1..NRows(df_sorted) :
          df_sorted.col["CostUSD"][i] = df.col["CostUSD"][df_sorted.index[i]]
    /\ \A i, j \in 1..NRows(df_sorted) :
          i < j => ~Lt(df_sorted.col["CostUSD"][i], df_sorted.col["CostUSD"][j])

\* C1: the top-contributor output is a prefix of the rows in CostUSD-descending
\* order and holds exactly the rows whose cumulative percent of total cost,
\* the row itself included, is <= 80; for CostUSD = [100, 20] it is empty.
C1_Top80IsInclusivePrefix ==
    Has("header_1") /\ NRows(df) > 0 =>
        /\ SortedDescending
        /\ NRows(top_80) <= NRows(df_sorted)
        /\ top_80 = Prefix(df_sorted, NRows(top_80))
        /\ \A i \in 1..NRows(df_sorted) :
              i <= NRows(top_80) <=>
                  /\ ~IsNaN(df_sorted.col["CostUSD"][i])
                  /\ Le(PercentThrough(i), Num(80, 1))
        /\ df.col["CostUSD"] = <<Num(100, 1), Num(20, 1)>> => NRows(top_80) = 0

\* C1 witness: a pass in which a row at exactly 80% is kept and a later row
\* is left out.
C1_Witness ==
    /\ Has("top_80")
    /\ NRows(top_80) >= 1
    /\ NRows(top_80) < NRows(df_sorted)
    /\ top_80.col["CumulativePercent"][NRows(top_80)] = Num(80, 1)

\* C2 as claimed: CumulativePercent never decreases from one row of the sorted
\* table to the next, and the last row's is 100.
C2_MonotoneAndLastIs100 ==
    Has("header_1") =>
        LET pct == df_sorted.col["CumulativePercent"]
            n   == NRows(df_sorted)
        IN  /\ \A i \in 1..(n - 1) : Le(pct[i], pct[i + 1])
            /\ n > 0 => pct[n] = Num(100, 1)

\* C2 amended: over the rows with a CostUSD, CumulativePercent never decreases
\* and, when total_cost > 0, the last of them is at 100; a row with a missing
\* CostUSD has a missing CumulativePercent, and so has every row when
\* total_cost is 0.
C2_MonotoneOverPresentCosts ==
    Has("header_1") =>
        LET cost    == df_sorted.col["CostUSD"]
            pct     == df_sorted.col["CumulativePercent"]
            present == {i \in 1..NRows(df_sorted) : ~IsNaN(cost[i])}
        IN  /\ \A i \in 1..NRows(df_sorted) : i \notin present => IsNaN(pct[i])
            /\ Gt(total_cost, Num(0, 1)) =>
                  /\ \A i, j \in present : i < j => Le(pct[i], pct[j])
                  /\ present # {}
                  /\ \A i \in present :
                        (\A j \in present : j <= i) => pct[i] = Num(100, 1)
            /\ total_cost = Num(0, 1) => \A i \in 1..NRows(df_sorted) : IsNaN(pct[i])

\* C2 witness: a ranked table with a missing cost after two costs of which
\* the second reaches 100%.
C2_Witness ==
    /\ Has("top_80")
    /\ NRows(df_sorted) >= 3
    /\ IsNaN(df_sorted.col["CostUSD"][3])
    /\ Lt(df_sorted.col["CumulativePercent"][1], Num(100, 1))
    /\ df_sorted.col["CumulativePercent"][2] = Num(100, 1)

\* The outputs of the stages that filter the table, once computed.
StageOutputs ==
    (IF Has("header_1") THEN {top_80} ELSE {})
    \cup (IF Has("header_2") THEN {memory_issues} ELSE {})
    \cup (IF Has("header_3") THEN {pc_candidates} ELSE {})
    \cup (IF Has("header_4") THEN {low_value} ELSE {})
    \cup (IF Has("header_6") THEN {containers} ELSE {})

FileColumns == {Strip(uploaded.columns[j]) : j \in 1..Len(uploaded.columns)}

\* The elements that show data of the file: the sample, the total and the
\* stages' tables and charts.
ResultElements ==
    {"sample", "total_cost", "top_80", "fig1", "memory_issues", "projection",
     "pc_candidates", "low_value", "forecast", "fig2", "containers"}

\* C4: when the uploaded file lacks one of the eight required columns, the
\* pass shows no result: no sample, no total cost, no stage output.
C4_MissingColumnShowsNothing ==
    uploaded.has /\ ~(RequiredColumns \subseteq FileColumns) =>
        \A tag \in ResultElements : ~Has(tag)

\* The percent of all invocations that row i of df accounts for.
InvocationShare(i) ==
    Mul(Div(df.col["InvocationsPerMonth"][i], Sum(df.col["InvocationsPerMonth"])),
        Num(100, 1))

\* C5: a row of the table is in the low-value output exactly when its share
\* of the invocations of the whole table is < 1% and its CostUSD is strictly
\* greater than the median CostUSD of the whole table.
C5_LowValueUsesFullTable ==
    Has("header_4") =>
        /\ \A i \in 1..NRows(df) :
              df.index[i] \in Labels(low_value) <=>
                  /\ Lt(InvocationShare(i), Num(1, 1))
                  /\ Gt(df.col["CostUSD"][i], Median(df.col["CostUSD"]))
        /\ \A i \in 1..NRows(low_value) :
              /\ Lt(low_value.col["PercentInvocations"][i], Num(1, 1))
              /\ low_value.col["PercentInvocations"][i] = InvocationShare(low_value.index[i])
              /\ low_value.col["CostUSD"][i] = df.col["CostUSD"][low_value.index[i]]

\* C5 witness: one row is selected, the other row is below the median, which
\* lies strictly between the two costs of the table.
C5_Witness ==
    /\ Has("low_value")
    /\ NRows(low_value) = 1
    /\ Gt(low_value.col["CostUSD"][1], Median(df.col["CostUSD"]))
    /\ \E i \in 1..NRows(df) :
          /\ df.index[i] \notin Labels(low_value)
          /\ Lt(df.col["CostUSD"][i], Median(df.col["CostUSD"]))

\* C6: two rows with equal CostUSD keep their original order in the sorted
\* table.
C6_SortIsStable ==
    Has("header_1") =>
        \A i, j \in 1..NRows(df_sorted) :
            i < j /\ df_sorted.col["CostUSD"][i] = df_sorted.col["CostUSD"][j]
                => df_sorted.index[i] < df_sorted.index[j]

\* C7: once coerced, every column of the uploaded file keeps its values to
\* the end of the pass.
C7_InputColumnsKept ==
    pc \in {"total", "rank", "rightsize", "concurrency", "lowvalue", "forecast",
            "containers", "closing", "done"} /\ uploaded.has =>
        \A c \in FileColumns : df.col[c] = Coerced(ReadCsv(uploaded)).col[c]

\* C8: a row is in the containerization output exactly when its duration is
\* over 3 s, its memory over 2000 MB and its invocations under 5000; when no
\* row lasts over 3 s the output is empty and is rendered as a table.
C8_ContainersExactlyAllThree ==
    Has("header_6") =>
        LET ms  == df.col["AvgDurationMs"]
            mem == df.col["MemoryMB"]
            inv == df.col["InvocationsPerMonth"]
            long(i)  == IsFinite(ms[i]) /\ ms[i].n > 3000 * ms[i].d
            large(i) == IsFinite(mem[i]) /\ mem[i].n > 2000 * mem[i].d
            rare(i)  == IsFinite(inv[i]) /\ inv[i].n < 5000 * inv[i].d
        IN  /\ \A i \in 1..NRows(df) :
                  df.index[i] \in Labels(containers) <=> long(i) /\ large(i) /\ rare(i)
            /\ (\A i \in 1..NRows(df) : ~long(i)) =>
                  NRows(containers) = 0 /\ Has("containers") /\ ~Has("exception")

\* C8 witness: a row of exactly 3 s with large memory and few invocations,
\* no row over 3 s, and the empty table rendered.
C8_Witness ==
    /\ Has("containers")
    /\ NRows(containers) = 0
    /\ \E i \in 1..NRows(df) :
          /\ df.col["DurationSec"][i] = Num(3, 1)
          /\ Gt(df.col["MemoryMB"][i], Num(2000, 1))
          /\ Lt(df.col["InvocationsPerMonth"][i], Num(5000, 1))

\* C9: a row is in the right-sizing output exactly when MemoryMB > 1500 and
\* its duration is under 1 s; for each output row PredictedNewCost is 0.75
\* and Savings 0.25 of CostUSD and the two add up to CostUSD (all three are
\* missing when CostUSD is missing).
C9_RightSizerProjection ==
    Has("header_2") =>
        LET ms   == df.col["AvgDurationMs"]
            mem  == df.col["MemoryMB"]
            cost == memory_issues.col["CostUSD"]
            pred == memory_issues.col["PredictedNewCost"]
            save == memory_issues.col["Savings"]
        IN  /\ \A i \in 1..NRows(df) :
                  df.index[i] \in Labels(memory_issues) <=>
                      /\ IsFinite(mem[i]) /\ mem[i].n > 1500 * mem[i].d
                      /\ IsFinite(ms[i]) /\ ms[i].n < 1000 * ms[i].d
            /\ \A i \in 1..NRows(memory_issues) :
                  /\ cost[i] = df.col["CostUSD"][memory_issues.index[i]]
                  /\ IF IsNaN(cost[i]) THEN IsNaN(pred[i]) /\ IsNaN(save[i])
                     ELSE /\ IsFinite(pred[i]) /\ IsFinite(save[i])
                          /\ 4 * pred[i].n * cost[i].d = 3 * cost[i].n * pred[i].d
                          /\ 4 * save[i].n * cost[i].d = cost[i].n * save[i].d
                          /\ Add(pred[i], save[i]) = cost[i]

\* C9 witness: a 2000 MB row of 0.5 s with a cost is in the output and a
\* 2000 MB row of 1.5 s is not.
C9_Witness ==
    /\ Has("projection")
    /\ \E i \in 1..NRows(memory_issues) :
          /\ memory_issues.col["MemoryMB"][i] = Num(2000, 1)
          /\ memory_issues.col["DurationSec"][i] = Num(1, 2)
          /\ memory_issues.col["Savings"][i] = Num(25, 1)
    /\ \E i \in 1..NRows(df) :
          /\ df.index[i] \notin Labels(memory_issues)
          /\ df.col["MemoryMB"][i] = Num(2000, 1)
          /\ df.col["DurationSec"][i] = Num(3, 2)

\* C10: the closing text that says the containerization filter matched no
\* rows is shown only in a pass with an uploaded file whose containerization
\* output is empty.
C10_ClosingTextOnlyWhenEmpty ==
    Has("closing_text") =>
        uploaded.has /\ Has("containers") /\ NRows(containers) = 0

=============================================================================
